---- MODULE Spec2Model ----
(***************************************************************************)
(* Lawn-mower (boustrophedon) route planner of bok-ucgs-fish-route.        *)
(*                                                                         *)
(* The planner is a pure function of two corners, a band distance and an   *)
(* angle.  Init draws one call's arguments from bounded sets; the action   *)
(* CreateRouteSegmentLawnMower applies the planner to them.                *)
(*                                                                         *)
(* Numbers.  The code computes in floating point; the model computes the   *)
(* same expressions in exact rational arithmetic.  A rational is a pair    *)
(* <<n, d>> in lowest terms with d > 0.  The unit of length is 1e-8 m, so  *)
(* that the code's two absolute tolerances are representable: the nudge    *)
(* 1e-8 is one unit and the epsilon 1e-10 is 1/100 unit.                   *)
(*                                                                         *)
(* Angles.  sin and cos are tabulated for the angles 90*q + b, where b is  *)
(* 0, atan(3/4) or atan(4/3) (degrees), for which they are rational.       *)
(*                                                                         *)
(* Coordinates are planar (UTM) coordinates relative to an origin outside  *)
(* the WGS84 range, so convert_corners_if_wgs84 leaves them unchanged.     *)
(***************************************************************************)
EXTENDS Integers, Sequences, FiniteSets, TLC

\* ------------------------------------------------------------------ bounds
MaxX == 3
MaxY == 4
MaxBandDistance == 3
MaxQuarter == 3

\* -------------------------------------------------------------- rationals
Abs(i) == IF i < 0 THEN -i ELSE i

RECURSIVE GCD(_, _)
GCD(a, b) == IF b = 0 THEN a ELSE GCD(b, a % b)

Rat(n, d) ==
    LET g == GCD(Abs(n), Abs(d))
        s == IF d < 0 THEN -1 ELSE 1
    IN  <<(s * n) \div g, (s * d) \div g>>

R(i) == <<i, 1>>
RAdd(a, b) == Rat(a[1] * b[2] + b[1] * a[2], a[2] * b[2])
RNeg(a) == <<-a[1], a[2]>>
RSub(a, b) == RAdd(a, RNeg(b))
RMul(a, b) == Rat(a[1] * b[1], a[2] * b[2])
RDiv(a, b) == Rat(a[1] * b[2], a[2] * b[1])
RAbs(a) == <<Abs(a[1]), a[2]>>
RLt(a, b) == a[1] * b[2] < b[1] * a[2]
RLe(a, b) == a[1] * b[2] <= b[1] * a[2]
RMin(a, b) == IF RLe(a, b) THEN a ELSE b
RMax(a, b) == IF RLe(a, b) THEN b ELSE a
\* math.ceil
RCeil(a) == -((-a[1]) \div a[2])
IMax(i, j) == IF i >= j THEN i ELSE j

\* ---------------------------------------------------------------- angles
Bases == {"0", "atan34", "atan43"}
SinBase(b) == CASE b = "0" -> R(0) [] b = "atan34" -> <<3, 5>> [] b = "atan43" -> <<4, 5>>
CosBase(b) == CASE b = "0" -> R(1) [] b = "atan34" -> <<4, 5>> [] b = "atan43" -> <<3, 5>>

\* math.sin(math.radians(a)) and math.cos(math.radians(a)) for a = 90*q + b
Sin(a) ==
    CASE a.q % 4 = 0 -> SinBase(a.b)
      [] a.q % 4 = 1 -> CosBase(a.b)
      [] a.q % 4 = 2 -> RNeg(SinBase(a.b))
      [] a.q % 4 = 3 -> RNeg(CosBase(a.b))
Cos(a) ==
    CASE a.q % 4 = 0 -> CosBase(a.b)
      [] a.q % 4 = 1 -> RNeg(SinBase(a.b))
      [] a.q % 4 = 2 -> RNeg(CosBase(a.b))
      [] a.q % 4 = 3 -> SinBase(a.b)

\* angle % 180 (Python: the result is in [0, 180))
Mod180(a) == [q |-> a.q % 2, b |-> a.b]
Plus90(a) == [q |-> a.q + 1, b |-> a.b]
Plus180(a) == [q |-> a.q + 2, b |-> a.b]
Deg0 == [q |-> 0, b |-> "0"]
Deg90 == [q |-> 1, b |-> "0"]
Deg180 == [q |-> 2, b |-> "0"]

\* ---------------------------------------------------------------- inputs
Angles == [q : 0..MaxQuarter, b : Bases]
\* the grid, and the corner and spacing of the documented example
\* (0,0)-(10,10) with max_spacing 10
Corners == {<<R(x), R(y)>> : x \in 0..MaxX, y \in 0..MaxY} \cup {<<R(10), R(10)>>}
BandDistances == {R(k) : k \in -1..MaxBandDistance} \cup {R(10)}

\* corner1, corner2, band_distance, angle, speed and waypoints are the
\* arguments of the call under study (an argument the call does not take is
\* "unset"); waypoints is the caller's list object, which the caller may still
\* change after the call; pc is the position of the caller and result the
\* returned object; args is the record of the arguments of a call that has
\* other arguments than these
VARIABLES corner1, corner2, band_distance, angle, speed, waypoints, args, pc, result
vars == <<corner1, corner2, band_distance, angle, speed, waypoints, args, pc, result>>

NoResult == [status |-> "none", path |-> <<>>, bands |-> <<>>]
Ok(bands, path) == [status |-> "ok", path |-> path, bands |-> bands]
ZeroDivisionError == [status |-> "ZeroDivisionError", path |-> <<>>, bands |-> <<>>]

\* concatenation of the strips of a sequence of bands
RECURSIVE Flatten(_)
Flatten(bs) == IF bs = <<>> THEN <<>> ELSE Head(bs).strip \o Flatten(Tail(bs))

\* ------------------------------------------------- axis-aligned generators
\* num_bands and actual_band_distance for an extent (lines 92-102, 215-225)
NumBandsTooFew(extent, bd) ==
    LET n0 == IMax(2, RCeil(RDiv(extent, bd)) - 1)
        a0 == IF n0 > 1 THEN RDiv(extent, R(n0 - 1)) ELSE extent
    IN  IF RLt(bd, a0) THEN n0 + 1 ELSE n0

NumBandsChecked(extent, bd) ==
    LET n0 == IMax(2, RCeil(RDiv(extent, bd)) + 1)
        a0 == IF n0 > 1 THEN RDiv(extent, R(n0 - 1)) ELSE extent
    IN  IF RLt(bd, a0) THEN n0 + 1 ELSE n0

VerticalBandSameWay(i, x, y_min, y_max) ==
    [anchor |-> x, offset |-> R(i), hits |-> <<>>,
     strip |-> << <<x, y_min>>, <<x, y_max>> >>]

VerticalBand(i, x, y_min, y_max) ==
    [anchor |-> x, offset |-> R(i), hits |-> <<>>,
     strip |-> IF i % 2 = 0 THEN << <<x, y_min>>, <<x, y_max>> >>
                            ELSE << <<x, y_max>>, <<x, y_min>> >>]

CreateVerticalLawnMowerUtm(x_min, x_max, y_min, y_max, bd) ==
    IF bd = R(0) THEN ZeroDivisionError
    ELSE LET width_meters == RSub(x_max, x_min)
             num_bands == NumBandsChecked(width_meters, bd)
             actual_band_distance == RDiv(width_meters, R(num_bands - 1))
             bands == [k \in 1..num_bands |->
                         VerticalBand(k - 1,
                             RAdd(x_min, RMul(R(k - 1), actual_band_distance)),
                             y_min, y_max)]
         IN  Ok(bands, Flatten(bands))

HorizontalBand(i, y, x_min, x_max) ==
    [anchor |-> y, offset |-> R(i), hits |-> <<>>,
     strip |-> IF i % 2 = 0 THEN << <<x_min, y>>, <<x_max, y>> >>
                            ELSE << <<x_max, y>>, <<x_min, y>> >>]

CreateHorizontalLawnMowerUtm(x_min, x_max, y_min, y_max, bd) ==
    IF bd = R(0) THEN ZeroDivisionError
    ELSE LET height_meters == RSub(y_max, y_min)
             num_bands == NumBandsChecked(height_meters, bd)
             actual_band_distance == RDiv(height_meters, R(num_bands - 1))
             bands == [k \in 1..num_bands |->
                         HorizontalBand(k - 1,
                             RAdd(y_min, RMul(R(k - 1), actual_band_distance)),
                             x_min, x_max)]
         IN  Ok(bands, Flatten(bands))

\* --------------------------------------------------------- angled generator
\* epsilon = 1e-10 m and the 1e-8 m nudge, in units of 1e-8 m
Epsilon == <<1, 100>>
Nudge == <<1, 1>>

\* the geometry computed before the band loop (lines 336-383)
Geometry(x_min, x_max, y_min, y_max, a) ==
    LET line_angle == Mod180(Plus90(a))
        dx == Sin(line_angle)
        dy == Cos(line_angle)
    IN  [x_min |-> x_min, x_max |-> x_max, y_min |-> y_min, y_max |-> y_max,
         corners |-> << <<x_min, y_min>>, <<x_max, y_min>>,
                        <<x_max, y_max>>, <<x_min, y_max>> >>,
         center_x |-> RDiv(RAdd(x_min, x_max), R(2)),
         center_y |-> RDiv(RAdd(y_min, y_max), R(2)),
         dx |-> dx, dy |-> dy,
         band_dx |-> RNeg(dy), band_dy |-> dx,
         projection_length |->
             RAdd(RAbs(RMul(RSub(x_max, x_min), dx)),
                  RAbs(RMul(RSub(y_max, y_min), dy)))]

\* intersection of the line of one band with edge j (lines 396-432)
EdgeHit(g, offset, j) ==
    LET start_corner == g.corners[j + 1]
        end_corner == g.corners[((j + 1) % 4) + 1]
        start_x == RSub(start_corner[1], g.center_x)
        start_y == RSub(start_corner[2], g.center_y)
        end_x == RSub(end_corner[1], g.center_x)
        end_y == RSub(end_corner[2], g.center_y)
        denominator == RAdd(RMul(g.dx, RSub(end_x, start_x)),
                            RMul(g.dy, RSub(end_y, start_y)))
        t == RDiv(RAdd(RMul(g.dx, RSub(RMul(offset, g.band_dx), start_x)),
                       RMul(g.dy, RSub(RMul(offset, g.band_dy), start_y))),
                  denominator)
    IN  IF RLt(RAbs(denominator), Epsilon) THEN <<>>
        ELSE IF RLe(R(0), t) /\ RLe(t, R(1))
          THEN << <<RAdd(g.center_x, RAdd(start_x, RMul(RSub(end_x, start_x), t))),
                    RAdd(g.center_y, RAdd(start_y, RMul(RSub(end_y, start_y), t)))>> >>
        ELSE <<>>

BandIntersections(g, offset) ==
    EdgeHit(g, offset, 0) \o EdgeHit(g, offset, 1)
        \o EdgeHit(g, offset, 2) \o EdgeHit(g, offset, 3)

\* point order of a two-point band (lines 436-453)
OrientBand(g, i, bi) ==
    LET vec_x == RSub(bi[2][1], bi[1][1])
        vec_y == RSub(bi[2][2], bi[1][2])
        dot_product == RAdd(RMul(vec_x, g.band_dx), RMul(vec_y, g.band_dy))
    IN  IF (i % 2 = 0 /\ RLt(dot_product, R(0)))
           \/ (i % 2 = 1 /\ RLt(R(0), dot_product))
          THEN <<bi[2], bi[1]>>
          ELSE bi

\* lines 464-468
IsDuplicate(p, all_intersections) ==
    \E k \in 1..Len(all_intersections) :
        /\ RLt(RAbs(RSub(all_intersections[k][1], p[1])), Epsilon)
        /\ RLt(RAbs(RSub(all_intersections[k][2], p[2])), Epsilon)

\* lines 470-485
AdjustPoint(g, p) ==
    IF RLt(RAbs(RSub(p[2], g.y_min)), Epsilon) THEN <<RAdd(p[1], Nudge), p[2]>>
    ELSE IF RLt(RAbs(RSub(p[2], g.y_max)), Epsilon) THEN <<RSub(p[1], Nudge), p[2]>>
    ELSE IF RLt(RAbs(RSub(p[1], g.x_min)), Epsilon) THEN <<p[1], RAdd(p[2], Nudge)>>
    ELSE IF RLt(RAbs(RSub(p[1], g.x_max)), Epsilon) THEN <<p[1], RSub(p[2], Nudge)>>
    ELSE p

\* lines 462-488
AdjustIntersection(g, p, all_intersections) ==
    IF IsDuplicate(p, all_intersections) THEN AdjustPoint(g, p) ELSE p

\* the constant c of the band's line dx*X + dy*Y = c, in coordinates relative
\* to the center (the line equation of line 408)
LineConstant(g, offset) ==
    RAdd(RMul(g.dx, RMul(offset, g.band_dx)), RMul(g.dy, RMul(offset, g.band_dy)))

\* one iteration of the band loop (lines 388-498)
AngledBand(g, i, offset, all_intersections) ==
    LET hits == BandIntersections(g, offset)
        oriented == OrientBand(g, i, hits)
    IN  [anchor |-> LineConstant(g, offset),
         offset |-> offset,
         hits |-> hits,
         strip |-> IF Len(hits) = 2
                     THEN <<AdjustIntersection(g, oriented[1], all_intersections),
                            AdjustIntersection(g, oriented[2], all_intersections)>>
                     ELSE <<>>]

RECURSIVE AngledBands(_, _, _, _, _)
AngledBands(g, i, num_bands, actual_band_distance, done) ==
    IF i >= num_bands THEN done
    ELSE LET start_offset == RDiv(RNeg(g.projection_length), R(2))
             offset == RAdd(start_offset, RMul(R(i), actual_band_distance))
             band == AngledBand(g, i, offset, Flatten(done))
         IN  AngledBands(g, i + 1, num_bands, actual_band_distance, Append(done, band))

\* lines 371-375: no follow-up check of the actual distance here
NumBandsAngled(projection_length, bd) ==
    IMax(2, RCeil(RDiv(projection_length, bd)) + 1)

CreateAngledLawnMowerUtm(x_min, x_max, y_min, y_max, bd, a) ==
    IF bd = R(0) THEN ZeroDivisionError
    ELSE LET g == Geometry(x_min, x_max, y_min, y_max, a)
             num_bands == NumBandsAngled(g.projection_length, bd)
             actual_band_distance == RDiv(g.projection_length, R(num_bands - 1))
             bands == AngledBands(g, 0, num_bands, actual_band_distance, <<>>)
         IN  Ok(bands, Flatten(bands))

\* ------------------------------------------------------------- dispatcher
\* convert_corners_if_wgs84 (line 44) returns planar corners unchanged with
\* was_converted = False, so the generators return utm_coordinates as they are.
CreateRouteSegmentLawnMowerValidating(c1, c2, bd, a) ==
    IF c1[1] = c2[1] \/ c1[2] = c2[2]
      THEN [status |-> "ValueError", path |-> <<>>, bands |-> <<>>]
    ELSE IF Mod180(a) = Deg0
      THEN CreateVerticalLawnMowerUtm(RMin(c1[1], c2[1]), RMax(c1[1], c2[1]),
                                      RMin(c1[2], c2[2]), RMax(c1[2], c2[2]), bd)
    ELSE IF Mod180(a) = Deg90
      THEN CreateHorizontalLawnMowerUtm(RMin(c1[1], c2[1]), RMax(c1[1], c2[1]),
                                        RMin(c1[2], c2[2]), RMax(c1[2], c2[2]), bd)
    ELSE CreateAngledLawnMowerUtm(RMin(c1[1], c2[1]), RMax(c1[1], c2[1]),
                                  RMin(c1[2], c2[2]), RMax(c1[2], c2[2]), bd, Mod180(a))

CreateRouteSegmentLawnMowerFn(c1, c2, bd, a) ==
    LET x_min == RMin(c1[1], c2[1])
        x_max == RMax(c1[1], c2[1])
        y_min == RMin(c1[2], c2[2])
        y_max == RMax(c1[2], c2[2])
        normalized_angle == Mod180(a)
    IN  IF normalized_angle = Deg0 \/ normalized_angle = Deg180
          THEN CreateVerticalLawnMowerUtm(x_min, x_max, y_min, y_max, bd)
        ELSE IF normalized_angle = Deg90
          THEN CreateHorizontalLawnMowerUtm(x_min, x_max, y_min, y_max, bd)
        ELSE CreateAngledLawnMowerUtm(x_min, x_max, y_min, y_max, bd, normalized_angle)

\* ---------------------------------------------------------- state machine
Init ==
    /\ corner1 \in Corners
    /\ corner2 \in Corners
    /\ band_distance \in BandDistances
    /\ angle \in Angles
    /\ speed = "unset"
    /\ waypoints = "unset"
    /\ args = "unset"
    /\ pc = "ready"
    /\ result = NoResult

CreateRouteSegmentLawnMower ==
    /\ pc = "ready"
    /\ result' = CreateRouteSegmentLawnMowerFn(corner1, corner2, band_distance, angle)
    /\ pc' = "done"
    /\ UNCHANGED <<corner1, corner2, band_distance, angle, speed, waypoints, args>>

Next == CreateRouteSegmentLawnMower

Spec == Init /\ [][Next]_vars

\* ------------------------------------------------- vocabulary of the claims
Done == pc = "done"
Returned == Done /\ result.status = "ok"
XMin == RMin(corner1[1], corner2[1])
XMax == RMax(corner1[1], corner2[1])
YMin == RMin(corner1[2], corner2[2])
YMax == RMax(corner1[2], corner2[2])
Width == RSub(XMax, XMin)
Height == RSub(YMax, YMin)
ValidRectangle == RLt(R(0), Width) /\ RLt(R(0), Height)
ValidSpacing == RLt(R(0), band_distance)
IsVertical == Mod180(angle) = Deg0
IsHorizontal == Mod180(angle) = Deg90
IsAngled == ~IsVertical /\ ~IsHorizontal
NumStrips == Len(result.path) \div 2
StripStart(k) == result.path[2 * k - 1]
StripEnd(k) == result.path[2 * k]
\* the requested compass heading (sin a, cos a) in (east, north)
HeadingX == Sin(angle)
HeadingY == Cos(angle)
Dot(ux, uy, vx, vy) == RAdd(RMul(ux, vx), RMul(uy, vy))
Cross(ux, uy, vx, vy) == RSub(RMul(ux, vy), RMul(uy, vx))
OnBoundary(p) ==
    /\ p[1] = XMin \/ p[1] = XMax \/ p[2] = YMin \/ p[2] = YMax
    /\ RLe(XMin, p[1]) /\ RLe(p[1], XMax)
    /\ RLe(YMin, p[2]) /\ RLe(p[2], YMax)

\* ------------------------------------------------------------------ claims

\* C1: for max_spacing > 0, at every angle, the scan lines of two consecutive
\* bands are at most max_spacing apart (perpendicular distance).
C1_SpacingAtMostMax ==
    (Returned /\ ValidSpacing) =>
        \A i \in 1..(Len(result.bands) - 1) :
            RLe(RAbs(RSub(result.bands[i + 1].anchor, result.bands[i].anchor)),
                band_distance)

C1_Witness ==
    /\ Returned /\ ValidSpacing /\ ValidRectangle
    /\ Len(result.bands) >= 3
    /\ \E i \in 1..(Len(result.bands) - 1) :
          /\ RLt(R(0), RAbs(RSub(result.bands[i + 1].anchor, result.bands[i].anchor)))
          /\ RLt(RAbs(RSub(result.bands[i + 1].anchor, result.bands[i].anchor)),
                 band_distance)

\* C2: for a rectangle of positive width and height, band_distance > 0 and
\* any angle, the returned list has an even length of at least 4.
C2_AtLeastTwoStrips ==
    (Returned /\ ValidRectangle /\ ValidSpacing) =>
        (Len(result.path) % 2 = 0 /\ Len(result.path) >= 4)

\* C3: at angle 0 (mod 180) the path is the zigzag over n bands at
\* x_i = x_min + i * actual_spacing with x_0 = x_min and x_(n-1) = x_max,
\* even bands south to north and odd bands north to south; the rectangle
\* (0,0)-(10,10) with max_spacing 10 gives [(0,0),(0,10),(10,10),(10,0)].
C3_VerticalZigzag ==
    (Returned /\ IsVertical) =>
        LET n == NumStrips
            spacing == RDiv(Width, R(n - 1))
            X(i) == RAdd(XMin, RMul(R(i), spacing))
        IN  /\ n >= 2 /\ Len(result.path) = 2 * n
            /\ X(0) = XMin /\ X(n - 1) = XMax
            /\ \A i \in 0..(n - 1) :
                  IF i % 2 = 0
                    THEN StripStart(i + 1) = <<X(i), YMin>> /\ StripEnd(i + 1) = <<X(i), YMax>>
                    ELSE StripStart(i + 1) = <<X(i), YMax>> /\ StripEnd(i + 1) = <<X(i), YMin>>
            /\ ({corner1, corner2} = {<<R(0), R(0)>>, <<R(10), R(10)>>}
                  /\ band_distance = R(10))
                 => result.path = << <<R(0), R(0)>>, <<R(0), R(10)>>,
                                     <<R(10), R(10)>>, <<R(10), R(0)>> >>

C3_Witness ==
    /\ Returned /\ angle = Deg0
    /\ corner1 = <<R(0), R(0)>> /\ corner2 = <<R(10), R(10)>>
    /\ band_distance = R(10)
    /\ result.path = << <<R(0), R(0)>>, <<R(0), R(10)>>,
                        <<R(10), R(10)>>, <<R(10), R(0)>> >>

\* C4: at a non-axis-aligned angle every intersection of band i's scan line
\* lies on the line through center + offset_i * (unit normal), i.e. at signed
\* distance offset_i from the center, so that the lines of different bands
\* are distinct and consecutive lines are actual_spacing apart.
C4_LinesOffsetFromCenter ==
    (Returned /\ IsAngled /\ ValidRectangle /\ ValidSpacing) =>
        LET g == Geometry(XMin, XMax, YMin, YMax, Mod180(angle))
        IN  \A i \in 1..Len(result.bands) :
              \A h \in 1..Len(result.bands[i].hits) :
                 Dot(g.dx, g.dy,
                     RSub(result.bands[i].hits[h][1], g.center_x),
                     RSub(result.bands[i].hits[h][2], g.center_y))
                   = result.bands[i].offset

\* C5: every returned waypoint lies on the boundary of the rectangle,
\* adjusted duplicates included, for either order of the corners.
C5_WaypointsOnBoundary ==
    (Returned /\ ValidRectangle /\ ValidSpacing) => \A k \in 1..Len(result.path) : OnBoundary(result.path[k])

\* C6: every emitted strip (start, end) is collinear with the direction
\* (sin a, cos a) of the requested angle, adjusted strips included.
C6_StripsParallelToAngle ==
    (Returned /\ ValidRectangle /\ ValidSpacing) =>
        \A k \in 1..NumStrips :
            Cross(RSub(StripEnd(k)[1], StripStart(k)[1]),
                  RSub(StripEnd(k)[2], StripStart(k)[2]),
                  HeadingX, HeadingY) = R(0)

\* C7: at angle 0 the first strip is flown from y_min to y_max, and at
\* angle 90 the first strip is horizontal and flown from x_max to x_min.
C7_CompassConvention ==
    (Returned /\ ValidRectangle /\ ValidSpacing) =>
        /\ angle = Deg0 =>
              (StripStart(1)[2] = YMin /\ StripEnd(1)[2] = YMax
                 /\ StripStart(1)[1] = StripEnd(1)[1])
        /\ angle = Deg90 =>
              (StripStart(1)[1] = XMax /\ StripEnd(1)[1] = XMin
                 /\ StripStart(1)[2] = StripEnd(1)[2])

\* C8: for a non-axis-aligned angle a in (0,180), the vector from the first to
\* the second point of a two-point strip has a non-negative dot product with
\* (sin a, cos a) on even bands and a non-positive one on odd bands.
C8_StripOrderFollowsHeading ==
    (Returned /\ IsAngled /\ angle.q \in {0, 1} /\ ValidRectangle /\ ValidSpacing) =>
        \A i \in 1..Len(result.bands) :
            Len(result.bands[i].strip) = 2 =>
                LET s == result.bands[i].strip
                    d == Dot(RSub(s[2][1], s[1][1]), RSub(s[2][2], s[1][2]),
                             HeadingX, HeadingY)
                IN  IF (i - 1) % 2 = 0 THEN RLe(R(0), d) ELSE RLe(d, R(0))

\* C9: a call with band_distance <= 0 is rejected with an error and never
\* returns a route.
C9_NonPositiveSpacingRejected ==
    (Done /\ ValidRectangle /\ RLe(band_distance, R(0))) =>
        result.status \notin {"ok", "none"}

MeetingPoints(i) == {result.bands[i].hits[h] : h \in 1..Len(result.bands[i].hits)}

C12_PathLengthCountsIntersections ==
    (Returned /\ IsAngled /\ ValidRectangle /\ ValidSpacing) =>
        Len(result.path)
          = 2 * Cardinality({i \in 1..Len(result.bands) : Cardinality(MeetingPoints(i)) = 2})
            + Cardinality({i \in 1..Len(result.bands) : Cardinality(MeetingPoints(i)) = 1})

\* ------------------------------------------------ coordinates/waypoint.py
MaxSpeed == 2
MaxCoordinate == 2

\* a Python number: its type and its value
PyInt(k) == [type |-> "int", v |-> R(k)]
PyFloat(r) == [type |-> "float", v |-> r]
\* the builtin float()
Float(x) == [type |-> "float", v |-> x.v]
\* == on numbers compares values: 3 == 3.0
NumEq(x, y) == x.v = y.v

\* WaypointCoordinate.__init__(self, lon, lat, altitude=0.0): the first
\* positional argument is stored as lon, the second as lat
WaypointCoordinate(lon, lat, altitude) ==
    [lon |-> Float(lon), lat |-> Float(lat), altitude |-> Float(altitude)]

\* --------------------------------------------------- coordinates/route.py
ValueError(message) == [status |-> "ValueError", message |-> message]

\* list(waypoints): a new list object with the same items
ListSameObject(wps) == [object |-> "argument", items |-> wps]

List(wps) == [object |-> "new", items |-> wps]

\* RouteSegment.__init__(self, waypoints, speed)
RouteSegmentAcceptingZero(wps, spd) ==
    IF Len(wps) = 0
      THEN ValueError("RouteSegment must contain at least one waypoint")
    ELSE IF RLt(Float(spd).v, R(0))
      THEN ValueError("Speed must be positive")
    ELSE [status |-> "ok", speed |-> Float(spd), waypoints |-> List(wps)]

RouteSegment(wps, spd) ==
    IF Len(wps) = 0
      THEN ValueError("RouteSegment must contain at least one waypoint")
    ELSE IF RLe(Float(spd).v, R(0))
      THEN ValueError("Speed must be positive")
    ELSE [status |-> "ok", speed |-> Float(spd), waypoints |-> List(wps)]

\* self.waypoints of a segment: the items of its own list object, or, were it
\* the caller's list object, whatever that list holds now
SegmentWaypoints(segment) ==
    IF segment.waypoints.object = "argument" THEN waypoints
    ELSE segment.waypoints.items

\* RouteSegment.__len__
SegmentLen(segment) == Len(SegmentWaypoints(segment))

\* ------------------------------------------------ route_planner/perimeter.py
\* create_route_segment_perimeter(corner1, corner2, speed)
CreateRouteSegmentPerimeterOpen(c1, c2, spd) ==
    LET lat1 == c1[1]
        lon1 == c1[2]
        lat2 == c2[1]
        lon2 == c2[2]
        corner_coordinates == << <<lat1, lon1>>, <<lat1, lon2>>,
                                 <<lat2, lon2>>, <<lat2, lon1>> >>
    IN  RouteSegment([k \in 1..4 |->
                          WaypointCoordinate(corner_coordinates[k][1],
                                             corner_coordinates[k][2],
                                             PyFloat(R(0)))],
                     spd)

CreateRouteSegmentPerimeterFn(c1, c2, spd) ==
    LET lat1 == c1[1]
        lon1 == c1[2]
        lat2 == c2[1]
        lon2 == c2[2]
        corner_coordinates == << <<lat1, lon1>>, <<lat1, lon2>>,
                                 <<lat2, lon2>>, <<lat2, lon1>>,
                                 <<lat1, lon1>> >>
    IN  RouteSegment([k \in 1..5 |->
                          WaypointCoordinate(corner_coordinates[k][1],
                                             corner_coordinates[k][2],
                                             PyFloat(R(0)))],
                     spd)

\* corners as pairs of ints or of floats, speeds as ints or floats
PerimeterCorners ==
    {<<PyInt(x), PyInt(y)>> : x \in 0..MaxCoordinate, y \in 0..MaxCoordinate}
    \cup {<<PyFloat(Rat(2 * x + 1, 2)), PyFloat(Rat(2 * y + 1, 2))>> :
              x \in 0..MaxCoordinate, y \in 0..MaxCoordinate}
Speeds ==
    {PyInt(k) : k \in -1..MaxSpeed} \cup {PyFloat(Rat(2 * k + 1, 2)) : k \in -1..MaxSpeed}

InitPerimeter ==
    /\ corner1 \in PerimeterCorners
    /\ corner2 \in PerimeterCorners
    /\ speed \in Speeds
    /\ band_distance = "unset"
    /\ angle = "unset"
    /\ waypoints = "unset"
    /\ args = "unset"
    /\ pc = "ready"
    /\ result = NoResult

CreateRouteSegmentPerimeter ==
    /\ pc = "ready"
    /\ result' = CreateRouteSegmentPerimeterFn(corner1, corner2, speed)
    /\ pc' = "done"
    /\ UNCHANGED <<corner1, corner2, band_distance, angle, speed, waypoints, args>>

NextPerimeter == CreateRouteSegmentPerimeter

SpecPerimeter == InitPerimeter /\ [][NextPerimeter]_vars

\* the position (lon, lat) of a waypoint, and the waypoint at a corner given
\* as a pair (lon, lat)
Position(w) == <<w.lon.v, w.lat.v>>
PerimeterWaypoint(k) == SegmentWaypoints(result)[k]
\* twice the signed area enclosed by the waypoints in the plane with lon to
\* the east and lat to the north: negative for a clockwise loop
SignedArea2 ==
    LET term(k) == RSub(RMul(PerimeterWaypoint(k).lon.v, PerimeterWaypoint(k + 1).lat.v),
                        RMul(PerimeterWaypoint(k + 1).lon.v, PerimeterWaypoint(k).lat.v))
    IN  RAdd(RAdd(term(1), term(2)), RAdd(term(3), term(4)))
OppositeCorners == corner1[1].v # corner2[1].v /\ corner1[2].v # corner2[2].v

\* C16: for any two corners and any speed > 0 the perimeter call returns a
\* segment of exactly 5 waypoints; the first and the last are at corner1, the
\* third at corner2, the first four are the four corners of the rectangle,
\* and the segment's speed equals the given speed.
C16_PerimeterFiveWaypoints ==
    (Done /\ RLt(R(0), speed.v)) =>
        /\ result.status = "ok"
        /\ SegmentLen(result) = 5
        /\ Position(PerimeterWaypoint(1)) = <<corner1[1].v, corner1[2].v>>
        /\ PerimeterWaypoint(5) = PerimeterWaypoint(1)
        /\ Position(PerimeterWaypoint(3)) = <<corner2[1].v, corner2[2].v>>
        /\ {Position(PerimeterWaypoint(k)) : k \in 1..4}
             = {<<x, y>> : x \in {corner1[1].v, corner2[1].v},
                           y \in {corner1[2].v, corner2[2].v}}
        /\ NumEq(result.speed, speed)

C16_Witness ==
    /\ Returned /\ OppositeCorners
    /\ Cardinality({Position(PerimeterWaypoint(k)) : k \in 1..SegmentLen(result)}) = 4
    /\ speed.type = "int"

\* C17: the perimeter route runs clockwise (longitude to the east, latitude
\* to the north) from the first corner, whichever of the four corners of the
\* rectangle corner1 is.
C17_PerimeterClockwise ==
    (Returned /\ OppositeCorners) => RLt(SignedArea2, R(0))

\* C18: for corners given as (lon, lat) the waypoints are, in order,
\* (lon1, lat1), (lon2, lat1), (lon2, lat2), (lon1, lat2), (lon1, lat1): the
\* second waypoint has the latitude of corner1 and the longitude of corner2.
C18_PerimeterWaypointOrder ==
    (Returned /\ OppositeCorners) =>
        /\ SegmentLen(result) = 5
        /\ Position(PerimeterWaypoint(1)) = <<corner1[1].v, corner1[2].v>>
        /\ Position(PerimeterWaypoint(2)) = <<corner2[1].v, corner1[2].v>>
        /\ Position(PerimeterWaypoint(3)) = <<corner2[1].v, corner2[2].v>>
        /\ Position(PerimeterWaypoint(4)) = <<corner1[1].v, corner2[2].v>>
        /\ Position(PerimeterWaypoint(5)) = <<corner1[1].v, corner1[2].v>>

\* ------------------------------------- a caller constructing a RouteSegment
MaxWaypoints == 2
MaxListLen == 2

\* the waypoint objects the caller has, and the lists it may pass
WaypointPool == {WaypointCoordinate(PyInt(k), PyInt(k), PyInt(0)) : k \in 1..MaxWaypoints}
WaypointLists == UNION {[1..n -> WaypointPool] : n \in 0..MaxListLen}

InitSegment ==
    /\ waypoints \in WaypointLists
    /\ speed \in Speeds
    /\ corner1 = "unset"
    /\ corner2 = "unset"
    /\ band_distance = "unset"
    /\ angle = "unset"
    /\ args = "unset"
    /\ pc = "ready"
    /\ result = NoResult

\* route_segment = RouteSegment(waypoints, speed)
NewRouteSegment ==
    /\ pc = "ready"
    /\ result' = RouteSegment(waypoints, speed)
    /\ pc' = "done"
    /\ UNCHANGED <<corner1, corner2, band_distance, angle, speed, waypoints, args>>

\* after the call the caller still holds its list and may change it:
\* waypoints.append(w)
CallerAppends ==
    /\ pc = "done"
    /\ Len(waypoints) <= MaxListLen
    /\ \E w \in WaypointPool : waypoints' = Append(waypoints, w)
    /\ UNCHANGED <<corner1, corner2, band_distance, angle, speed, args, pc, result>>

\* del waypoints[i]
CallerRemoves ==
    /\ pc = "done"
    /\ \E i \in 1..Len(waypoints) :
          waypoints' = SubSeq(waypoints, 1, i - 1) \o SubSeq(waypoints, i + 1, Len(waypoints))
    /\ UNCHANGED <<corner1, corner2, band_distance, angle, speed, args, pc, result>>

\* waypoints.reverse()
CallerReorders ==
    /\ pc = "done"
    /\ waypoints' = [k \in 1..Len(waypoints) |-> waypoints[Len(waypoints) + 1 - k]]
    /\ UNCHANGED <<corner1, corner2, band_distance, angle, speed, args, pc, result>>

NextSegment ==
    \/ NewRouteSegment
    \/ CallerAppends
    \/ CallerRemoves
    \/ CallerReorders

SpecSegment == InitSegment /\ [][NextSegment]_vars

C20_SegmentKeepsOwnList ==
    [][(Returned /\ waypoints' # waypoints) =>
          /\ SegmentWaypoints(result)' = SegmentWaypoints(result)
          /\ SegmentLen(result)' = SegmentLen(result)]_vars

C20_Witness ==
    /\ Returned
    /\ waypoints # SegmentWaypoints(result)
    /\ Len(waypoints) # SegmentLen(result)

\* ------------------------------------------- a caller building a waypoint
\* the calls below take their arguments in args only
NoOtherArguments ==
    /\ corner1 = "unset"
    /\ corner2 = "unset"
    /\ band_distance = "unset"
    /\ angle = "unset"
    /\ speed = "unset"
    /\ waypoints = "unset"
OtherArguments == <<corner1, corner2, band_distance, angle, speed, waypoints>>

\* ints and floats around 0
Numbers ==
    {PyInt(k) : k \in -1..MaxCoordinate}
    \cup {PyFloat(Rat(2 * k + 1, 2)) : k \in -1..MaxCoordinate}

\* the text of a float in an f-string
FloatStr(x) == <<"float", x.v>>

\* WaypointCoordinate.__repr__: the class name and the labelled fields in the
\* order of the format string
WaypointRepr(w) ==
    << "WaypointCoordinate", <<"lon", FloatStr(w.lon)>>, <<"lat", FloatStr(w.lat)>>,
       <<"altitude", FloatStr(w.altitude)>> >>

InitWaypoint ==
    /\ args \in [a : Numbers, b : Numbers, c : Numbers]
    /\ NoOtherArguments
    /\ pc = "ready"
    /\ result = NoResult

\* waypoint = WaypointCoordinate(a, b, c)
NewWaypointCoordinate ==
    /\ pc = "ready"
    /\ result' = [status |-> "ok",
                  waypoint |-> WaypointCoordinate(args.a, args.b, args.c),
                  str |-> "none"]
    /\ pc' = "done"
    /\ UNCHANGED <<OtherArguments, args>>

\* str(waypoint)
StrWaypointCoordinate ==
    /\ pc = "done"
    /\ result' = [result EXCEPT !.str = WaypointRepr(result.waypoint)]
    /\ pc' = "shown"
    /\ UNCHANGED <<OtherArguments, args>>

NextWaypoint ==
    \/ NewWaypointCoordinate
    \/ StrWaypointCoordinate

SpecWaypoint == InitWaypoint /\ [][NextWaypoint]_vars

\* C21: a WaypointCoordinate built from the positional arguments (a, b, c)
\* has lat = a, lon = b and altitude = c, and its string form is
\* 'WaypointCoordinate(lat=a, lon=b, altitude=c)'.
C21_PositionalLatLon ==
    /\ pc \in {"done", "shown"} =>
          /\ NumEq(result.waypoint.lat, args.a)
          /\ NumEq(result.waypoint.lon, args.b)
          /\ NumEq(result.waypoint.altitude, args.c)
    /\ pc = "shown" =>
          result.str = << "WaypointCoordinate", <<"lat", FloatStr(Float(args.a))>>,
                          <<"lon", FloatStr(Float(args.b))>>,
                          <<"altitude", FloatStr(Float(args.c))>> >>

\* ---------------------------- route.py: create_route_segment_from_coordinates
\* pyproj: CRS.from_epsg raises CRSError for a code that names no coordinate
\* system; "32634" is UTM zone 34N, "" names none
Epsgs == {"32634", ""}
KnownEpsgs == {"32634"}
CRSError == [status |-> "CRSError", message |-> "Invalid projection"]

\* transformer.transform(x, y) from the UTM system to WGS84: the longitude and
\* the latitude of the point (x, y) of that system
Transform(utm_epsg, x, y) ==
    << PyFloat([crs |-> "EPSG:4326", axis |-> "lon", of |-> <<utm_epsg, x.v, y.v>>]),
       PyFloat([crs |-> "EPSG:4326", axis |-> "lat", of |-> <<utm_epsg, x.v, y.v>>]) >>

CreateRouteSegmentFromCoordinatesLookupFirst(coordinates, altitude, spd, utm_epsg) ==
    IF utm_epsg \notin KnownEpsgs
      THEN CRSError
    ELSE IF Len(coordinates) = 0
      THEN ValueError("Coordinates list must not be empty")
    ELSE RouteSegment(
             [k \in 1..Len(coordinates) |->
                 WaypointCoordinate(
                     Transform(utm_epsg, coordinates[k][1], coordinates[k][2])[1],
                     Transform(utm_epsg, coordinates[k][1], coordinates[k][2])[2],
                     altitude)],
             spd)

CreateRouteSegmentFromCoordinatesFn(coordinates, altitude, spd, utm_epsg) ==
    IF Len(coordinates) = 0
      THEN ValueError("Coordinates list must not be empty")
    ELSE IF utm_epsg \notin KnownEpsgs
      THEN CRSError
    ELSE RouteSegment(
             [k \in 1..Len(coordinates) |->
                 WaypointCoordinate(
                     Transform(utm_epsg, coordinates[k][1], coordinates[k][2])[1],
                     Transform(utm_epsg, coordinates[k][1], coordinates[k][2])[2],
                     altitude)],
             spd)

\* planar coordinate tuples, lists of them, altitudes
UtmCoordinates == {<<PyFloat(R(x)), PyFloat(R(x + 1))>> : x \in 1..MaxWaypoints}
CoordinateLists == UNION {[1..n -> UtmCoordinates] : n \in 0..MaxListLen}
Altitudes == {PyFloat(R(0)), PyFloat(Rat(21, 2)), PyFloat(R(-5))}

InitFromCoordinates ==
    /\ args \in [coordinates : CoordinateLists, altitude : Altitudes,
                 speed : Speeds, utm_epsg : Epsgs]
    /\ NoOtherArguments
    /\ pc = "ready"
    /\ result = NoResult

CreateRouteSegmentFromCoordinates ==
    /\ pc = "ready"
    /\ result' = CreateRouteSegmentFromCoordinatesFn(args.coordinates, args.altitude,
                                                     args.speed, args.utm_epsg)
    /\ pc' = "done"
    /\ UNCHANGED <<OtherArguments, args>>

NextFromCoordinates == CreateRouteSegmentFromCoordinates

SpecFromCoordinates == InitFromCoordinates /\ [][NextFromCoordinates]_vars

Longitudes == {R(-181), R(-180), R(-1), Rat(-1, 2), R(0), R(5), R(6), R(180), R(181), R(500000)}
Latitudes == {R(-91), R(-90), R(-1), R(0), R(1), R(90), R(5000000)}
GeoCorners == {<<lon, lat>> : lon \in Longitudes, lat \in Latitudes}

\* is_wgs84_coordinates(lon, lat)
IsWgs84Coordinates(lon, lat) ==
    /\ RLe(R(-180), lon) /\ RLe(lon, R(180))
    /\ RLe(R(-90), lat) /\ RLe(lat, R(90))

\* the builtin int() of a float: truncation towards zero
IntOf(r) == IF r[1] >= 0 THEN r[1] \div r[2] ELSE -((-r[1]) \div r[2])

\* get_utm_zone_for_coordinates(lon, lat)
GetUtmZoneForCoordinatesFn(lon, lat) == IntOf(RDiv(RAdd(lon, R(180)), R(6))) + 1

\* the projection named by utm_proj_str
UtmProj(zone, north) ==
    [proj |-> "utm", zone |-> zone, hemisphere |-> IF north THEN "north" ELSE "south"]

\* wgs84_to_utm(lon, lat): easting and northing of the point in the
\* projection of its own zone and hemisphere
Wgs84ToUtm(lon, lat) ==
    LET zone == GetUtmZoneForCoordinatesFn(lon, lat)
        north == RLe(R(0), lat)
    IN  << [crs |-> UtmProj(zone, north), axis |-> "easting", of |-> <<lon, lat>>],
           [crs |-> UtmProj(zone, north), axis |-> "northing", of |-> <<lon, lat>>] >>

\* convert_corners_from_wgs84_to_utm(corner1, corner2)
ConvertCornersFromWgs84ToUtm(c1, c2) ==
    LET lon1 == c1[1]
        lat1 == c1[2]
        lon2 == c2[1]
        lat2 == c2[2]
    IN  <<Wgs84ToUtm(lon1, lat1), Wgs84ToUtm(lon2, lat2)>>

\* convert_corners_if_wgs84(corner1, corner2), as its callers unpack it and
\* its tests describe it: (corner1, corner2, was_converted)
ConvertCornersIfEitherWgs84(c1, c2) ==
    IF IsWgs84Coordinates(c1[1], c1[2]) \/ IsWgs84Coordinates(c2[1], c2[2])
      THEN <<ConvertCornersFromWgs84ToUtm(c1, c2)[1],
             ConvertCornersFromWgs84ToUtm(c1, c2)[2], TRUE>>
    ELSE <<c1, c2, FALSE>>

ConvertCornersIfWgs84Fn(c1, c2) ==
    IF IsWgs84Coordinates(c1[1], c1[2]) /\ IsWgs84Coordinates(c2[1], c2[2])
      THEN <<ConvertCornersFromWgs84ToUtm(c1, c2)[1],
             ConvertCornersFromWgs84ToUtm(c1, c2)[2], TRUE>>
    ELSE <<c1, c2, FALSE>>

\* the projection of the transformer that converts the waypoints back
\* (lawn_mower.py, the 'if was_converted' block of each generator): zone and
\* hemisphere of original_corner1
BackProjection(original_corner1) ==
    LET lon1 == original_corner1[1]
        lat1 == original_corner1[2]
        zone == IntOf(RDiv(RAdd(lon1, R(180)), R(6))) + 1
        north == RLe(R(0), lat1)
    IN  UtmProj(zone, north)

InitConversion ==
    /\ corner1 \in GeoCorners
    /\ corner2 \in GeoCorners
    /\ band_distance = "unset"
    /\ angle = "unset"
    /\ speed = "unset"
    /\ waypoints = "unset"
    /\ args = "unset"
    /\ pc = "ready"
    /\ result = NoResult

\* zone = get_utm_zone_for_coordinates(lon, lat) for corner1 = (lon, lat)
GetUtmZoneForCoordinates ==
    /\ pc = "ready"
    /\ result' = [status |-> "ok", call |-> "get_utm_zone_for_coordinates",
                  zone |-> GetUtmZoneForCoordinatesFn(corner1[1], corner1[2])]
    /\ pc' = "done"
    /\ UNCHANGED <<OtherArguments, args>>

\* utm_corner1, utm_corner2, was_converted = convert_corners_if_wgs84(corner1, corner2)
ConvertCornersIfWgs84 ==
    /\ pc = "ready"
    /\ result' = [status |-> "ok", call |-> "convert_corners_if_wgs84",
                  utm_corner1 |-> ConvertCornersIfWgs84Fn(corner1, corner2)[1],
                  utm_corner2 |-> ConvertCornersIfWgs84Fn(corner1, corner2)[2],
                  was_converted |-> ConvertCornersIfWgs84Fn(corner1, corner2)[3]]
    /\ pc' = "done"
    /\ UNCHANGED <<OtherArguments, args>>

\* create_route_segment_lawn_mower with geographic corners, as far as its
\* projections go: the one of each corner on the way in, the one of the
\* waypoints on the way back
LawnMowerProjections ==
    /\ pc = "ready"
    /\ LET converted == ConvertCornersIfWgs84Fn(corner1, corner2)
       IN  result' = [status |-> "ok", call |-> "create_route_segment_lawn_mower",
                      was_converted |-> converted[3],
                      proj_corner1 |-> IF converted[3] THEN converted[1][1].crs ELSE "none",
                      proj_corner2 |-> IF converted[3] THEN converted[2][1].crs ELSE "none",
                      proj_back |-> IF converted[3] THEN BackProjection(corner1) ELSE "none"]
    /\ pc' = "done"
    /\ UNCHANGED <<OtherArguments, args>>

NextConversion ==
    \/ GetUtmZoneForCoordinates
    \/ ConvertCornersIfWgs84
    \/ LawnMowerProjections

SpecConversion == InitConversion /\ [][NextConversion]_vars

Called(name) == Done /\ result.call = name

C28_ZoneInRange ==
    (/\ Called("get_utm_zone_for_coordinates")
     /\ RLe(R(-180), corner1[1]) /\ RLe(corner1[1], R(180))
     /\ RLe(R(-90), corner1[2]) /\ RLe(corner1[2], R(90))) =>
        /\ result.zone \in 1..60
        /\ result.zone = (RDiv(RAdd(corner1[1], R(180)), R(6))[1]
                            \div RDiv(RAdd(corner1[1], R(180)), R(6))[2]) + 1

\* C29: when both corners are geographic, the two corners are projected with
\* the same UTM zone and hemisphere, and the waypoints are converted back with
\* that zone and hemisphere, also for corners on either side of a zone
\* boundary or of the equator.
C29_OneProjection ==
    (/\ Called("create_route_segment_lawn_mower") /\ result.was_converted
     /\ corner1[1] # corner2[1] /\ corner1[2] # corner2[2]) =>
        /\ result.proj_corner1 = result.proj_corner2
        /\ result.proj_back = result.proj_corner1
        /\ result.proj_back = result.proj_corner2

\* ------------------------------------------------ exporter/ucgs_exporter.py
MaxSegments == 2

\* math.radians
Radians(x) == [type |-> "float", v |-> <<"radians", x.v>>]

\* _load_from_json('config/ucgs/waypoint.json'): the k-th call parses the file
\* again and returns a new dict object, named here by k
LoadedOnce(k) == 1

LoadedObject(k) == k

\* the fields of the template that the exporter sets, and two it leaves
WaypointTemplate ==
    [type |-> "Waypoint",
     point |-> [latitude |-> "None", longitude |-> "None", altitude |-> "None",
                altitudeType |-> "AGL"],
     parameters |-> [speed |-> "None", wpTurnType |-> "STRAIGHT"]]

\* the waypoints of all segments, segment after segment, each with the
\* speed of its segment: the order of the two nested loops
RECURSIVE SegmentLoop(_)
SegmentLoop(segments) ==
    IF Len(segments) = 0 THEN <<>>
    ELSE [k \in 1..Len(Head(segments).waypoints.items) |->
             [waypoint |-> Head(segments).waypoints.items[k],
              speed |-> Head(segments).speed]]
         \o SegmentLoop(Tail(segments))

\* the body of the inner loop: the template with the five fields set
UcgsWaypoint(step, epsg_code) ==
    LET lon == IF epsg_code # "4326"
                 THEN Transform(epsg_code, step.waypoint.lon, step.waypoint.lat)[1]
                 ELSE step.waypoint.lon
        lat == IF epsg_code # "4326"
                 THEN Transform(epsg_code, step.waypoint.lon, step.waypoint.lat)[2]
                 ELSE step.waypoint.lat
    IN  [WaypointTemplate EXCEPT
            !.point.latitude = Radians(lat),
            !.point.longitude = Radians(lon),
            !.point.altitude = step.waypoint.altitude,
            !.parameters.speed = step.speed]

\* _route_segments_to_ucgs_route(segments, epsg_code): route_structure
\* ["segments"] as the list of the dict objects appended, and the contents of
\* each object after the last assignment to it
RouteSegmentsToUcgsRouteFn(segments, epsg_code) ==
    LET steps == SegmentLoop(segments)
        n == Len(steps)
        last(o) == CHOOSE k \in 1..n :
                      LoadedObject(k) = o /\ \A j \in (k + 1)..n : LoadedObject(j) # o
    IN  IF epsg_code # "4326" /\ epsg_code \notin KnownEpsgs
          THEN CRSError
        ELSE [status |-> "ok",
              segments |-> [k \in 1..n |-> LoadedObject(k)],
              objects |-> [o \in {LoadedObject(k) : k \in 1..n} |->
                              UcgsWaypoint(steps[last(o)], epsg_code)]]

\* waypoints with three different fields, segments of them, lists of segments
UcgsWaypointPool ==
    {WaypointCoordinate(PyInt(k), PyInt(k + 1), PyInt(k + 2)) : k \in 1..MaxWaypoints}
UcgsSegments ==
    {RouteSegment(w, s) :
        w \in UNION {[1..n -> UcgsWaypointPool] : n \in 1..MaxListLen},
        s \in {PyInt(5), PyFloat(Rat(1, 2))}}
UcgsSegmentLists == UNION {[1..n -> UcgsSegments] : n \in 0..MaxSegments}

InitUcgs ==
    /\ args \in [segments : UcgsSegmentLists, epsg_code : {"4326"} \cup Epsgs]
    /\ NoOtherArguments
    /\ pc = "ready"
    /\ result = NoResult

RouteSegmentsToUcgsRoute ==
    /\ pc = "ready"
    /\ result' = RouteSegmentsToUcgsRouteFn(args.segments, args.epsg_code)
    /\ pc' = "done"
    /\ UNCHANGED <<OtherArguments, args>>

\* the caller sets a field of one emitted waypoint:
\* route["segments"][i]["point"]["altitude"] = -1
CallerSetsField ==
    /\ pc = "done"
    /\ result.status = "ok"
    /\ \E i \in 1..Len(result.segments) :
          result' = [result EXCEPT
                        !.objects[result.segments[i]].point.altitude = PyInt(-1)]
    /\ pc' = "edited"
    /\ UNCHANGED <<OtherArguments, args>>

NextUcgs ==
    \/ RouteSegmentsToUcgsRoute
    \/ CallerSetsField

SpecUcgs == InitUcgs /\ [][NextUcgs]_vars

\* the k-th emitted waypoint, and the number of waypoints in the first s
\* segments of the input
Emitted(k) == result.objects[result.segments[k]]
RECURSIVE WaypointsIn(_, _)
WaypointsIn(segments, s) ==
    IF s = 0 THEN 0
    ELSE WaypointsIn(segments, s - 1) + Len(segments[s].waypoints.items)

\* C24: _route_segments_to_ucgs_route emits one UcGS waypoint per input
\* waypoint (the sum of the segments' lengths), in segment order then waypoint
\* order, each with the speed of its own segment and the altitude of its
\* waypoint; each emitted waypoint is an object of its own, so that setting a
\* field of one changes no other.
C24_OneUcgsWaypointEach ==
    [][/\ (pc = "ready" /\ pc' = "done" /\ result'.status = "ok") =>
            /\ Len(result'.segments) = WaypointsIn(args.segments, Len(args.segments))
            /\ \A s \in 1..Len(args.segments) :
                  \A p \in 1..Len(args.segments[s].waypoints.items) :
                      LET e == result'.objects[
                                  result'.segments[WaypointsIn(args.segments, s - 1) + p]]
                      IN  /\ e.parameters.speed = args.segments[s].speed
                          /\ e.point.altitude
                               = args.segments[s].waypoints.items[p].altitude
       /\ (pc = "done" /\ pc' = "edited") =>
            Cardinality({k \in 1..Len(result.segments) : Emitted(k)' # Emitted(k)}) = 1
      ]_vars

C24_Witness ==
    /\ pc = "edited"
    /\ Len(args.segments) = 2
    /\ Len(result.segments) >= 3
    /\ args.segments[1].speed # args.segments[2].speed
    /\ Emitted(1).point.altitude = PyInt(-1)
    /\ Emitted(2).point.altitude # PyInt(-1)

\* ------------------------------- lawn_mower.py: the band count, in floats
\* A float has a mantissa of a fixed number of bits (53 in the program,
\* Precision here) and every division is rounded to the nearest float, ties
\* to even; an int converts exactly.
Precision == 6
Pow2(k) == IF k >= 0 THEN R(2 ^ k) ELSE Rat(1, 2 ^ (-k))
FRound(q) ==
    IF q = R(0) THEN q
    ELSE LET e == CHOOSE k \in -16..16 :
                     /\ RLe(R(2 ^ (Precision - 1)), RDiv(RAbs(q), Pow2(k)))
                     /\ RLt(RDiv(RAbs(q), Pow2(k)), R(2 ^ Precision))
             x == RDiv(RAbs(q), Pow2(e))
             m == x[1] \div x[2]
             r == RSub(x, R(m))
             up == RLt(Rat(1, 2), r) \/ (r = Rat(1, 2) /\ m % 2 = 1)
             n == IF up THEN m + 1 ELSE m
         IN  IF RLt(q, R(0)) THEN RNeg(RMul(R(n), Pow2(e))) ELSE RMul(R(n), Pow2(e))
\* float / float
FDiv(a, b) == FRound(RDiv(a, b))

\* the floats of this precision in [2^e, 2^(e+1))
FloatsIn(e) ==
    {RMul(Rat(m, 2 ^ (Precision - 1)), Pow2(e)) :
        m \in (2 ^ (Precision - 1))..(2 ^ Precision - 1)}

\* lines 92-102 (and 215-225): num_bands with the follow-up check
NumBandsFloatUnchecked(extent, bd) ==
    IMax(2, RCeil(FDiv(extent, bd)) + 1)

NumBandsFloat(extent, bd) ==
    LET n0 == IMax(2, RCeil(FDiv(extent, bd)) + 1)
        a0 == IF n0 > 1 THEN FDiv(extent, R(n0 - 1)) ELSE extent
    IN  IF RLt(bd, a0) THEN n0 + 1 ELSE n0

InitBandCount ==
    /\ args \in [width_meters : FloatsIn(2) \cup {R(0), R(10)}]
    /\ band_distance \in FloatsIn(-1) \cup {R(3)}
    /\ corner1 = "unset"
    /\ corner2 = "unset"
    /\ angle = "unset"
    /\ speed = "unset"
    /\ waypoints = "unset"
    /\ pc = "ready"
    /\ result = NoResult

\* the band count of _create_vertical_lawn_mower_utm for a rectangle of the
\* given width
CountBands ==
    /\ pc = "ready"
    /\ result' = [status |-> "ok",
                  num_bands |-> NumBandsFloat(args.width_meters, band_distance)]
    /\ pc' = "done"
    /\ UNCHANGED <<OtherArguments, args>>

NextBandCount == CountBands

SpecBandCount == InitBandCount /\ [][NextBandCount]_vars

\* the count before the follow-up check, from the float quotient
FirstCount == IMax(2, RCeil(FRound(RDiv(args.width_meters, band_distance))) + 1)

\* C25: for every extent >= 0 and max_spacing > 0 the number of bands is
\* exactly max(2, ceil(extent / max_spacing) + 1); the follow-up check that
\* adds a band when the actual spacing exceeds max_spacing never fires.
C25_FollowUpNeverFires ==
    Returned => result.num_bands = FirstCount

\* C25 as it holds: the number of bands is max(2, ceil(q) + 1) for the float
\* quotient q = extent / max_spacing, or one more; it is one more exactly when
\* the float extent / (that count - 1) still exceeds max_spacing.
C25_FollowUpAddsAtMostOne ==
    Returned =>
        /\ result.num_bands \in {FirstCount, FirstCount + 1}
        /\ result.num_bands = FirstCount + 1
             <=> RLt(band_distance,
                     FRound(RDiv(args.width_meters, R(FirstCount - 1))))

C25_Witness ==
    /\ Returned
    /\ result.num_bands = FirstCount + 1
    /\ RLt(R(0), args.width_meters)

\* ------------------------------- coordinates/route.py: water entry and exit
IndexError == [status |-> "IndexError", message |-> "list index out of range"]

\* default arguments of create_water_landing_segments
safe_altitude == 7
distance_to_start == 5

\* pyproj Geod(ellps="WGS84").inv: the forward azimuth from the first point to
\* the second
GeodInv(lon1, lat1, lon2, lat2) ==
    [azimuth_from |-> <<lon1.v, lat1.v>>, to |-> <<lon2.v, lat2.v>>]

\* pyproj Geod(ellps="WGS84").fwd: the point at a distance along an azimuth
GeodFwd(lon, lat, azimuth, distance) ==
    << PyFloat([geod |-> "fwd", axis |-> "lon", of |-> <<lon.v, lat.v>>,
                azimuth |-> azimuth, distance |-> distance]),
       PyFloat([geod |-> "fwd", axis |-> "lat", of |-> <<lon.v, lat.v>>,
                azimuth |-> azimuth, distance |-> distance]) >>

\* create_water_landing_segments(scanning_segment, traveling_altitude)
CreateWaterLandingSegments(scanning_segment, traveling_altitude) ==
    LET wps == SegmentWaypoints(scanning_segment)
    IN  IF Len(wps) < 2 THEN IndexError
        ELSE
          LET scan_0 == wps[1]
              scan_1 == wps[2]
              azimuth == GeodInv(scan_0.lon, scan_0.lat, scan_1.lon, scan_1.lat)
              drop == GeodFwd(scan_0.lon, scan_0.lat, azimuth, distance_to_start)
              down == GeodFwd(drop[1], drop[2], azimuth, 2)
              air_segment ==
                  RouteSegment(<<WaypointCoordinate(down[1], down[2], traveling_altitude)>>,
                               PyInt(3))
              water_segment ==
                  RouteSegment(<<WaypointCoordinate(down[1], down[2], PyInt(safe_altitude)),
                                 WaypointCoordinate(drop[1], drop[2], scan_0.altitude)>>,
                               PyFloat(Rat(1, 5)))
          IN  [status |-> "ok", segments |-> <<air_segment, water_segment>>]

\* create_water_take_off_segment(scanning_segment, traveling_altitude)
CreateWaterTakeOffAtStart(scanning_segment, traveling_altitude) ==
    LET wps == SegmentWaypoints(scanning_segment)
        scan_last == wps[1]
        water_segment ==
            RouteSegment(<<WaypointCoordinate(scan_last.lon, scan_last.lat,
                                              PyInt(safe_altitude))>>,
                         PyFloat(Rat(1, 2)))
        air_segment ==
            RouteSegment(<<WaypointCoordinate(scan_last.lon, scan_last.lat,
                                              traveling_altitude)>>,
                         PyInt(2))
    IN  [status |-> "ok", segments |-> <<water_segment, air_segment>>]

CreateWaterTakeOffSegment(scanning_segment, traveling_altitude) ==
    LET wps == SegmentWaypoints(scanning_segment)
        scan_last == wps[Len(wps)]
        water_segment ==
            RouteSegment(<<WaypointCoordinate(scan_last.lon, scan_last.lat,
                                              PyInt(safe_altitude))>>,
                         PyFloat(Rat(1, 2)))
        air_segment ==
            RouteSegment(<<WaypointCoordinate(scan_last.lon, scan_last.lat,
                                              traveling_altitude)>>,
                         PyInt(2))
    IN  [status |-> "ok", segments |-> <<water_segment, air_segment>>]

\* add_water_entry_exit_segments(route_segment, traveling_altitude): the
\* landing segments are built first, and their exception propagates
AddWaterEntryExitSegmentsFn(route_segment, traveling_altitude) ==
    LET landing == CreateWaterLandingSegments(route_segment, traveling_altitude)
        take_off == CreateWaterTakeOffSegment(route_segment, traveling_altitude)
    IN  IF landing.status # "ok" THEN landing
        ELSE [status |-> "ok",
              segments |-> landing.segments \o <<route_segment>> \o take_off.segments]

\* scan waypoints that differ in position and in altitude
ScanWaypoints ==
    {WaypointCoordinate(PyInt(k), PyInt(2 * k), PyInt(-k)) : k \in 1..MaxWaypoints}
\* the valid scanning segments: RouteSegment accepted the list and the speed
ScanSegments ==
    {RouteSegment(wps, spd) :
        wps \in UNION {[1..n -> ScanWaypoints] : n \in 1..MaxListLen},
        spd \in {s \in Speeds : RLt(R(0), s.v)}}

InitWaterEntryExit ==
    /\ args \in [route_segment : ScanSegments, traveling_altitude : Altitudes]
    /\ NoOtherArguments
    /\ pc = "ready"
    /\ result = NoResult

AddWaterEntryExitSegments ==
    /\ pc = "ready"
    /\ result' = AddWaterEntryExitSegmentsFn(args.route_segment, args.traveling_altitude)
    /\ pc' = "done"
    /\ UNCHANGED <<OtherArguments, args>>

NextWaterEntryExit == AddWaterEntryExitSegments

SpecWaterEntryExit == InitWaterEntryExit /\ [][NextWaterEntryExit]_vars

\* vocabulary of C26 and C27
ScanList == SegmentWaypoints(args.route_segment)
AtAltitude(segment, k, altitude) ==
    NumEq(SegmentWaypoints(segment)[k].altitude, altitude)
AtLocation(segment, k, waypoint) ==
    /\ SegmentWaypoints(segment)[k].lon = waypoint.lon
    /\ SegmentWaypoints(segment)[k].lat = waypoint.lat

\* C26: for a scanning segment with at least two waypoints
\* add_water_entry_exit_segments returns exactly five segments, in order: an
\* air segment at the traveling altitude, a water-entry segment from the safe
\* altitude down to the altitude of the first scan waypoint, the scanning
\* segment itself, a water-exit segment at the safe altitude at the last scan
\* waypoint, and an air segment at the traveling altitude at that location.
C26_FiveSegments ==
    (Done /\ Len(ScanList) >= 2) =>
        /\ result.status = "ok"
        /\ Len(result.segments) = 5
        /\ \A k \in 1..5 : result.segments[k].status = "ok"
        /\ SegmentLen(result.segments[1]) = 1
        /\ AtAltitude(result.segments[1], 1, args.traveling_altitude)
        /\ SegmentLen(result.segments[2]) = 2
        /\ AtAltitude(result.segments[2], 1, PyInt(safe_altitude))
        /\ AtAltitude(result.segments[2], 2, ScanList[1].altitude)
        /\ result.segments[3] = args.route_segment
        /\ SegmentLen(result.segments[4]) = 1
        /\ AtAltitude(result.segments[4], 1, PyInt(safe_altitude))
        /\ AtLocation(result.segments[4], 1, ScanList[Len(ScanList)])
        /\ SegmentLen(result.segments[5]) = 1
        /\ AtAltitude(result.segments[5], 1, args.traveling_altitude)
        /\ AtLocation(result.segments[5], 1, ScanList[Len(ScanList)])

C26_Witness ==
    /\ Returned
    /\ Len(ScanList) >= 2
    /\ ScanList[1] # ScanList[Len(ScanList)]
    /\ Len(result.segments) = 5

\* C27: add_water_entry_exit_segments succeeds for every valid RouteSegment,
\* including one that holds a single waypoint.
C27_SucceedsForEverySegment ==
    (Done /\ args.route_segment.status = "ok") => result.status = "ok"

\* ---------------------------- lawn_mower.py: the dispatcher on float angles
\* float + float
FAdd(a, b) == FRound(RAdd(a, b))

\* math.fmod(a, w) for w > 0: exact, with the sign of a
Fmod(a, w) ==
    LET q == RDiv(RAbs(a), w)
        m == RSub(RAbs(a), RMul(w, R(q[1] \div q[2])))
    IN  IF RLt(a, R(0)) THEN RNeg(m) ELSE m

\* float % for w > 0: a negative fmod is brought up by w, in a float addition
FloatMod(a, w) ==
    LET mod == Fmod(a, w)
    IN  IF RLt(mod, R(0)) THEN FAdd(mod, w) ELSE mod

\* the call of _create_angled_lawn_mower_utm at line 64, for an angle that has
\* no exact sine and cosine: its arguments
AngledCall(x_min, x_max, y_min, y_max, bd, normalized_angle) ==
    [status |-> "ok", generator |-> "_create_angled_lawn_mower_utm",
     arguments |-> <<x_min, x_max, y_min, y_max, bd, normalized_angle>>]

\* create_route_segment_lawn_mower, lines 50-64, for a float angle in degrees
CreateRouteSegmentLawnMowerFloatNo180(c1, c2, bd, a) ==
    LET x_min == RMin(c1[1], c2[1])
        x_max == RMax(c1[1], c2[1])
        y_min == RMin(c1[2], c2[2])
        y_max == RMax(c1[2], c2[2])
        normalized_angle == FloatMod(a, R(180))
    IN  IF normalized_angle = R(0)
          THEN CreateVerticalLawnMowerUtm(x_min, x_max, y_min, y_max, bd)
        ELSE IF normalized_angle = R(90)
          THEN CreateHorizontalLawnMowerUtm(x_min, x_max, y_min, y_max, bd)
        ELSE AngledCall(x_min, x_max, y_min, y_max, bd, normalized_angle)

CreateRouteSegmentLawnMowerFloat(c1, c2, bd, a) ==
    LET x_min == RMin(c1[1], c2[1])
        x_max == RMax(c1[1], c2[1])
        y_min == RMin(c1[2], c2[2])
        y_max == RMax(c1[2], c2[2])
        normalized_angle == FloatMod(a, R(180))
    IN  IF normalized_angle = R(0) \/ normalized_angle = R(180)
          THEN CreateVerticalLawnMowerUtm(x_min, x_max, y_min, y_max, bd)
        ELSE IF normalized_angle = R(90)
          THEN CreateHorizontalLawnMowerUtm(x_min, x_max, y_min, y_max, bd)
        ELSE AngledCall(x_min, x_max, y_min, y_max, bd, normalized_angle)

\* the float angles from 1/2 to 512 degrees, of both signs, and 0
FloatAngles ==
    UNION {{x, RNeg(x)} : x \in UNION {FloatsIn(e) : e \in -1..8}} \cup {R(0)}

InitFloatAngle ==
    /\ corner1 = <<R(0), R(0)>>
    /\ corner2 \in {<<R(x), R(MaxY)>> : x \in 1..MaxX}
    /\ band_distance \in {R(1), R(2)}
    /\ angle \in FloatAngles
    /\ speed = "unset"
    /\ waypoints = "unset"
    /\ args = "unset"
    /\ pc = "ready"
    /\ result = NoResult

CreateRouteSegmentLawnMowerAtFloatAngle ==
    /\ pc = "ready"
    /\ result' = CreateRouteSegmentLawnMowerFloat(corner1, corner2, band_distance, angle)
    /\ pc' = "done"
    /\ UNCHANGED <<corner1, corner2, band_distance, angle, speed, waypoints, args>>

NextFloatAngle == CreateRouteSegmentLawnMowerAtFloatAngle

SpecFloatAngle == InitFloatAngle /\ [][NextFloatAngle]_vars

\* vocabulary of C30
Remainder == FloatMod(angle, R(180))
TookVertical == result = CreateVerticalLawnMowerUtm(XMin, XMax, YMin, YMax, band_distance)
TookHorizontal == result = CreateHorizontalLawnMowerUtm(XMin, XMax, YMin, YMax, band_distance)
\* angle + 180 is a float: the caller can pass it
Plus180IsFloat == FAdd(angle, R(180)) = RAdd(angle, R(180))
SameAtPlus180 ==
    result = CreateRouteSegmentLawnMowerFloat(corner1, corner2, band_distance,
                                              RAdd(angle, R(180)))

\* C30: the result depends on the angle only modulo 180: the calls with a and
\* a + 180 return the same waypoint list in the same order, an angle whose
\* remainder is 0 or 90 takes an axis-aligned generator, and the remainder is
\* never 180.
C30_AngleModulo180 ==
    Done =>
        /\ Plus180IsFloat => SameAtPlus180
        /\ Remainder = R(0) => TookVertical
        /\ Remainder = R(90) => TookHorizontal
        /\ Remainder # R(180)

\* C30 as it holds: the result depends on the angle only through the float
\* remainder angle % 180, which lies in [0, 180], 180 included; a remainder of
\* 0 or 180 takes the vertical generator and a remainder of 90 the horizontal
\* one; the calls with a and a + 180 return the same waypoint list whenever
\* a + 180 is a float.
C30_AngleThroughRemainder ==
    Done =>
        /\ Plus180IsFloat => SameAtPlus180
        /\ RLe(R(0), Remainder) /\ RLe(Remainder, R(180))
        /\ Remainder \in {R(0), R(180)} => TookVertical
        /\ Remainder = R(90) => TookHorizontal

C30_Witness ==
    /\ Done
    /\ RLt(angle, R(0))
    /\ Remainder = R(180)
    /\ TookVertical

====
